---- MODULE Spec2Model ----
(***************************************************************************)
(* Model of engine.py: the BehaviorTracker repository (six pandas tables   *)
(* held in self.dataframes and mirrored to CSV files) and its aggregation  *)
(* routine calculate_all_averages.                                         *)
(*                                                                         *)
(* A table is [cols |-> sequence of column names, rows |-> sequence of     *)
(* rows]; a row is a function from the table's columns to values.  Text is *)
(* a sequence of one-character strings so that strip() and lower() are     *)
(* computed.  A date is a record of year, month and day together with the  *)
(* form it is stored in ("str" for the text YYYY-MM-DD, "Timestamp" for a  *)
(* pandas datetime64 value).                                               *)
(***************************************************************************)
EXTENDS Integers, Sequences, FiniteSets, TLC

VARIABLES dataframes, files, last

vars == <<dataframes, files, last>>

(***************************************************************************)
(* Bounds of the model and constants of the program.                       *)
(***************************************************************************)
MaxDefinitions == 2
MaxScores == 2
MaxAggScores == 3

MinScore == 1
MaxScore == 10

\* the missing value pd.concat fills in for a column a new row does not have
NaN == -1

TableNames ==
  {"subjects", "definitions", "daily_scores",
   "weekly_averages", "monthly_averages", "semi_annual_averages"}

AverageTables == {"weekly_averages", "monthly_averages", "semi_annual_averages"}

DATABASE_SCHEMA ==
  [subjects |-> <<"SubjectID", "SubjectLabel", "DateCreated">>,
   definitions |-> <<"DefinitionID", "SubjectID", "BehaviorName", "Description">>,
   daily_scores |-> <<"LogID", "DefinitionID", "Date", "Score", "Notes">>,
   weekly_averages |->
     <<"AverageID", "DefinitionID", "Year", "WeekOfYear", "AverageScore", "DataPointsCount">>,
   monthly_averages |->
     <<"AverageID", "DefinitionID", "Year", "Month", "AverageScore", "DataPointsCount">>,
   semi_annual_averages |->
     <<"AverageID", "DefinitionID", "Year", "Half", "AverageScore", "DataPointsCount">>]

(***************************************************************************)
(* Text: str.strip() and str.lower().                                      *)
(***************************************************************************)
None == <<"None">>

IsSpace(c) == c = " "

LowerChar(c) ==
  CASE c = "R" -> "r"
    [] c = "E" -> "e"
    [] c = "X" -> "x"
    [] c = "B" -> "b"
    [] c = "O" -> "o"
    [] OTHER -> c

Lower(s) == [i \in 1..Len(s) |-> LowerChar(s[i])]

RECURSIVE LStrip(_)
LStrip(s) ==
  IF s = <<>> THEN <<>>
  ELSE IF IsSpace(Head(s)) THEN LStrip(Tail(s)) ELSE s

RECURSIVE RStrip(_)
RStrip(s) ==
  IF s = <<>> THEN <<>>
  ELSE IF IsSpace(s[Len(s)]) THEN RStrip(SubSeq(s, 1, Len(s) - 1)) ELSE s

Strip(s) == RStrip(LStrip(s))

(***************************************************************************)
(* int(x): succeeds on an int and on a numeric string, raises TypeError on *)
(* None and ValueError on other text.                                      *)
(***************************************************************************)
IntParses(x) == x.kind \in {"int", "numstr"}

IntOf(x) == x.val

(***************************************************************************)
(* Calendar arithmetic (proleptic Gregorian), as pandas computes           *)
(* Series.dt.isocalendar() and Series.dt.month.                            *)
(***************************************************************************)
IsLeap(y) == (y % 4 = 0 /\ y % 100 # 0) \/ y % 400 = 0

DaysInMonth(y, m) ==
  IF m = 2 THEN (IF IsLeap(y) THEN 29 ELSE 28)
  ELSE IF m \in {4, 6, 9, 11} THEN 30 ELSE 31

RECURSIVE DaysBeforeMonth(_, _)
DaysBeforeMonth(y, m) ==
  IF m = 1 THEN 0 ELSE DaysBeforeMonth(y, m - 1) + DaysInMonth(y, m - 1)

DayOfYear(dt) == DaysBeforeMonth(dt.y, dt.m) + dt.d

DaysBeforeYear(y) ==
  365 * (y - 1) + ((y - 1) \div 4) - ((y - 1) \div 100) + ((y - 1) \div 400)

Ordinal(dt) == DaysBeforeYear(dt.y) + DayOfYear(dt)

\* Monday = 1 .. Sunday = 7
IsoWeekday(dt) == ((Ordinal(dt) - 1) % 7) + 1

WeeksInIsoYear(y) ==
  LET jan1 == IsoWeekday([y |-> y, m |-> 1, d |-> 1])
  IN IF jan1 = 4 \/ (jan1 = 3 /\ IsLeap(y)) THEN 53 ELSE 52

IsoCalendar(dt) ==
  LET w == (DayOfYear(dt) - IsoWeekday(dt) + 10) \div 7
  IN IF w < 1 THEN [year |-> dt.y - 1, week |-> WeeksInIsoYear(dt.y - 1)]
     ELSE IF w > WeeksInIsoYear(dt.y) THEN [year |-> dt.y + 1, week |-> 1]
     ELSE [year |-> dt.y, week |-> w]

(***************************************************************************)
(* pd.to_datetime and strftime("%Y-%m-%d").                                *)
(***************************************************************************)
DateParses(date) == date.kind \in {"date", "datetime", "isostr"}

\* pd.to_datetime(date).strftime("%Y-%m-%d"): the time of day is dropped
NormalizeDate(date) == [form |-> "str", y |-> date.y, m |-> date.m, d |-> date.d]

\* pd.to_datetime on a stored value: text and Timestamp both become Timestamp
ToDatetime(v) == [form |-> "Timestamp", y |-> v.y, m |-> v.m, d |-> v.d]

(***************************************************************************)
(* Data frames.                                                            *)
(***************************************************************************)
Range(s) == {s[i] : i \in 1..Len(s)}

EmptyFrame(t) == [cols |-> DATABASE_SCHEMA[t], rows |-> <<>>]

RECURSIVE SetMax(_)
SetMax(S) ==
  LET x == CHOOSE x \in S : TRUE
  IN IF S = {x} THEN x
     ELSE LET r == SetMax(S \ {x}) IN IF x > r THEN x ELSE r

\* a next-ID rule that forgets the increment
NextIdWithoutIncrement(df, id_column) ==
  LET ids == {df.rows[i][id_column] : i \in 1..Len(df.rows)} \ {NaN}
  IN IF df.rows = <<>> \/ ids = {} THEN 1 ELSE SetMax(ids)

_get_next_id(df, id_column) ==
  LET ids == {df.rows[i][id_column] : i \in 1..Len(df.rows)} \ {NaN}
  IN IF df.rows = <<>> \/ ids = {} THEN 1 ELSE SetMax(ids) + 1

\* pd.concat([df, pd.DataFrame([row])], ignore_index=True): the columns of the
\* result are those of df followed by the new ones of row; a value a row lacks is NaN
Concat(df, rowCols, row) ==
  LET cols == df.cols \o SelectSeq(rowCols, LAMBDA c : c \notin Range(df.cols))
      Widen(r) == [c \in Range(cols) |-> IF c \in DOMAIN r THEN r[c] ELSE NaN]
  IN [cols |-> cols,
      rows |-> [i \in 1..Len(df.rows) |-> Widen(df.rows[i])] \o <<Widen(row)>>]

\* df[col] = values: an existing column is overwritten in place, a new one is appended
SetColumn(df, col, values) ==
  [cols |-> IF col \in Range(df.cols) THEN df.cols ELSE Append(df.cols, col),
   rows |-> [i \in 1..Len(df.rows) |->
               [c \in DOMAIN df.rows[i] \cup {col} |->
                  IF c = col THEN values[i] ELSE df.rows[i][c]]]]

\* df[col] as a series: the value of the column in each row
Column(df, col) == [i \in 1..Len(df.rows) |-> df.rows[i][col]]

\* df[schema cols]: the columns selected, in the order asked for
SelectColumns(df, cols) ==
  [cols |-> cols,
   rows |-> [i \in 1..Len(df.rows) |-> [c \in Range(cols) |-> df.rows[i][c]]]]

(***************************************************************************)
(* groupby([DefinitionID, Year, bucket])['Score'].agg(['mean', 'count'])   *)
(* followed by reset_index, rename and the dense AverageID.  The groups    *)
(* come out sorted by key.  A mean is kept as the exact fraction in lowest *)
(* terms.                                                                  *)
(***************************************************************************)
RECURSIVE Gcd(_, _)
Gcd(a, b) == IF b = 0 THEN a ELSE Gcd(b, a % b)

Mean(sum, count) ==
  LET g == Gcd(sum, count) IN [num |-> sum \div g, den |-> count \div g]

KeyLess(a, b) ==
  \/ a[1] < b[1]
  \/ a[1] = b[1] /\ a[2] < b[2]
  \/ a[1] = b[1] /\ a[2] = b[2] /\ a[3] < b[3]

RECURSIVE SortKeys(_)
SortKeys(S) ==
  IF S = {} THEN <<>>
  ELSE LET least == CHOOSE x \in S : \A y \in S : ~KeyLess(y, x)
       IN <<least>> \o SortKeys(S \ {least})

RECURSIVE SumScores(_, _)
SumScores(rows, I) ==
  IF I = {} THEN 0
  ELSE LET i == CHOOSE i \in I : TRUE
       IN rows[i].Score + SumScores(rows, I \ {i})

GroupKey(r, bucket) == <<r.DefinitionID, r.Year, r[bucket]>>

GroupAverages(df, bucket) ==
  LET keys == SortKeys({GroupKey(df.rows[i], bucket) : i \in 1..Len(df.rows)})
      Members(k) == {i \in 1..Len(df.rows) : GroupKey(df.rows[i], bucket) = k}
      Rec(n) ==
        [c \in {"AverageID", "DefinitionID", "Year", bucket,
                "AverageScore", "DataPointsCount"} |->
           CASE c = "AverageID" -> n
             [] c = "DefinitionID" -> keys[n][1]
             [] c = "Year" -> keys[n][2]
             [] c = bucket -> keys[n][3]
             [] c = "AverageScore" ->
                  Mean(SumScores(df.rows, Members(keys[n])), Cardinality(Members(keys[n])))
             [] c = "DataPointsCount" -> Cardinality(Members(keys[n]))]
  IN [cols |-> <<"DefinitionID", "Year", bucket, "AverageScore", "DataPointsCount",
                 "AverageID">>,
      rows |-> [n \in 1..Len(keys) |-> Rec(n)]]

(***************************************************************************)
(* Inputs of the operations.                                               *)
(***************************************************************************)
IntInput(k, v) == [kind |-> k, val |-> v]

DateInput(k, y, m, d, hh) == [kind |-> k, y |-> y, m |-> m, d |-> d, hh |-> hh]

LabelInputs ==
  {None, <<>>, <<" ">>, <<" ", "R", "e", "x", " ">>, <<"r", "e", "x">>, <<"B", "o">>}

\* datetime.now().strftime("%Y-%m-%d %H:%M:%S")
Timestamps == {"2025-03-01 09:00:00"}

\* the second subject, a subject that never exists, and text that is no number
SubjectIdInputs == {IntInput("int", 2), IntInput("int", 3), IntInput("text", 0)}

NameInputs == {None, <<" ">>, <<" ", "b">>}

DescriptionInputs == {None, <<"d", " ">>}

DefinitionIdInputs == {IntInput("numstr", 1), IntInput("int", 3), IntInput("text", 0)}

ScoreInputs ==
  {IntInput("int", 0), IntInput("int", 1), IntInput("numstr", 10), IntInput("int", 11),
   IntInput("none", 0)}

BadDateInputs == {DateInput("text", 0, 0, 0, 0)}

DateInputs == {DateInput("datetime", 2024, 3, 5, 13)} \cup BadDateInputs

NotesInputs == {None, <<" ", "n">>}

\* Scores of two definitions on dates around the turn of the year: 2022-01-15 is a
\* Saturday of ISO week 2022-W02, 2023-01-01 a Sunday of ISO week 2022-W52 and
\* 2024-12-30 a Monday of ISO week 2025-W01
AggLogInputs ==
  {[definition_id |-> IntInput("int", 1), date |-> DateInput("date", 2022, 1, 15, 0),
    score |-> IntInput("int", 1)],
   [definition_id |-> IntInput("int", 1), date |-> DateInput("date", 2022, 1, 15, 0),
    score |-> IntInput("int", 10)],
   [definition_id |-> IntInput("int", 1), date |-> DateInput("isostr", 2023, 1, 1, 0),
    score |-> IntInput("int", 10)],
   [definition_id |-> IntInput("int", 2), date |-> DateInput("isostr", 2023, 1, 1, 0),
    score |-> IntInput("int", 1)],
   [definition_id |-> IntInput("int", 1), date |-> DateInput("datetime", 2024, 12, 30, 13),
    score |-> IntInput("int", 1)],
   [definition_id |-> IntInput("int", 2), date |-> DateInput("datetime", 2024, 12, 30, 13),
    score |-> IntInput("int", 10)]}

(***************************************************************************)
(* The state after BehaviorTracker(): initialize_database has created the  *)
(* header-only files and __init__ has read them.                           *)
(***************************************************************************)
Init ==
  /\ files = [t \in TableNames |-> EmptyFrame(t)]
  /\ dataframes = [t \in TableNames |-> EmptyFrame(t)]
  /\ last = [op |-> "__init__", raised |-> FALSE, again |-> FALSE]

\* last records the latest call: its name, whether an exception left it, and, for
\* calculate_all_averages, whether it directly follows another calculate_all_averages
Call(op, raised) ==
  [op |-> op, raised |-> raised,
   again |-> op = "calculate_all_averages" /\ last.op = "calculate_all_averages"]

\* self.dataframes[df_name] = df; self._save_df(df_name)
StoreAndSave(df_name, df) ==
  /\ dataframes' = [dataframes EXCEPT ![df_name] = df]
  /\ files' = [files EXCEPT ![df_name] = df]

\* a duplicate test that compares the labels as written
LabelTakenCaseSensitive(subjects_df, subject_label) ==
  \E i \in 1..Len(subjects_df.rows) :
     subjects_df.rows[i].SubjectLabel = subject_label

LabelTaken(subjects_df, subject_label) ==
  \E i \in 1..Len(subjects_df.rows) :
     Lower(subjects_df.rows[i].SubjectLabel) = Lower(subject_label)

add_subject(subject_label, now) ==
  IF subject_label = None
  THEN /\ last' = Call("add_subject", TRUE)
       /\ UNCHANGED <<dataframes, files>>
  ELSE LET label == Strip(subject_label)
           subjects_df == dataframes.subjects
           new_subject ==
             [SubjectID |-> _get_next_id(subjects_df, "SubjectID"),
              SubjectLabel |-> label,
              DateCreated |-> now]
       IN /\ last' = Call("add_subject", FALSE)
          /\ IF label = <<>> \/ LabelTaken(subjects_df, label)
             THEN UNCHANGED <<dataframes, files>>
             ELSE StoreAndSave("subjects",
                    Concat(subjects_df, DATABASE_SCHEMA.subjects, new_subject))

\* a parent test that only asks for some subject to exist
SomeSubjectExists(subjects_df, subject_id) == subjects_df.rows # <<>>

SubjectExists(subjects_df, subject_id) ==
  \E i \in 1..Len(subjects_df.rows) : subjects_df.rows[i].SubjectID = subject_id

add_behavior_definition(subject_id, behavior_name, description) ==
  IF \/ behavior_name = None
     \/ behavior_name = <<>>
     \/ Strip(behavior_name) = <<>>
     \/ ~IntParses(subject_id)
     \/ ~SubjectExists(dataframes.subjects, IntOf(subject_id))
  THEN /\ last' = Call("add_behavior_definition", FALSE)
       /\ UNCHANGED <<dataframes, files>>
  ELSE IF description = None
  THEN /\ last' = Call("add_behavior_definition", TRUE)
       /\ UNCHANGED <<dataframes, files>>
  ELSE LET new_definition ==
             [DefinitionID |-> _get_next_id(dataframes.definitions, "DefinitionID"),
              SubjectID |-> IntOf(subject_id),
              BehaviorName |-> Strip(behavior_name),
              Description |-> Strip(description)]
       IN /\ last' = Call("add_behavior_definition", FALSE)
          /\ StoreAndSave("definitions",
               Concat(dataframes.definitions, DATABASE_SCHEMA.definitions, new_definition))

ScoreInRange(score) == MinScore <= score /\ score <= MaxScore

DefinitionExists(definitions_df, definition_id) ==
  \E i \in 1..Len(definitions_df.rows) :
     definitions_df.rows[i].DefinitionID = definition_id

log_score(definition_id, date, score, notes) ==
  IF \/ ~IntParses(definition_id)
     \/ ~IntParses(score)
     \/ ~ScoreInRange(IntOf(score))
     \/ ~DefinitionExists(dataframes.definitions, IntOf(definition_id))
  THEN /\ last' = Call("log_score", FALSE)
       /\ UNCHANGED <<dataframes, files>>
  ELSE IF ~DateParses(date) \/ notes = None
  THEN /\ last' = Call("log_score", TRUE)
       /\ UNCHANGED <<dataframes, files>>
  ELSE LET new_log_entry ==
             [LogID |-> _get_next_id(dataframes.daily_scores, "LogID"),
              DefinitionID |-> IntOf(definition_id),
              Date |-> NormalizeDate(date),
              Score |-> IntOf(score),
              Notes |-> Strip(notes)]
       IN /\ last' = Call("log_score", FALSE)
          /\ StoreAndSave("daily_scores",
               Concat(dataframes.daily_scores, DATABASE_SCHEMA.daily_scores, new_log_entry))

\* an update that adds the new records to those of the earlier run
ExtendTable(old, new) == [cols |-> new.cols, rows |-> old.rows \o new.rows]

\* self.dataframes[name] = avg[cols]: the table is replaced, never extended
ReplaceTable(old, new) == new

HalfOf(month) == (month - 1) \div 6 + 1

calculate_all_averages ==
  LET scores_df == dataframes.daily_scores
      withDate ==
        SetColumn(scores_df, "Date",
                  [i \in 1..Len(scores_df.rows) |-> ToDatetime(scores_df.rows[i].Date)])
      Date == Column(withDate, "Date")
      withYear ==
        SetColumn(withDate, "Year", [i \in DOMAIN Date |-> IsoCalendar(Date[i]).year])
      withWeek ==
        SetColumn(withYear, "WeekOfYear", [i \in DOMAIN Date |-> IsoCalendar(Date[i]).week])
      weekly_avg == GroupAverages(withWeek, "WeekOfYear")
      withMonth == SetColumn(withWeek, "Month", [i \in DOMAIN Date |-> Date[i].m])
      monthly_avg == GroupAverages(withMonth, "Month")
      withHalf == SetColumn(withMonth, "Half", [i \in DOMAIN Date |-> HalfOf(Date[i].m)])
      semi_annual_avg == GroupAverages(withHalf, "Half")
      Replaced(name, avg) ==
        ReplaceTable(dataframes[name], SelectColumns(avg, DATABASE_SCHEMA[name]))
  IN IF scores_df.rows = <<>>
     THEN /\ last' = Call("calculate_all_averages", FALSE)
          /\ UNCHANGED <<dataframes, files>>
     ELSE /\ last' = Call("calculate_all_averages", FALSE)
          /\ dataframes' =
               [dataframes EXCEPT
                  !.daily_scores = withHalf,
                  !.weekly_averages = Replaced("weekly_averages", weekly_avg),
                  !.monthly_averages = Replaced("monthly_averages", monthly_avg),
                  !.semi_annual_averages =
                     Replaced("semi_annual_averages", semi_annual_avg)]
          /\ files' =
               [files EXCEPT
                  !.weekly_averages = dataframes'.weekly_averages,
                  !.monthly_averages = dataframes'.monthly_averages,
                  !.semi_annual_averages = dataframes'.semi_annual_averages]

AddSubject == \E subject_label \in LabelInputs, now \in Timestamps :
  add_subject(subject_label, now)

AddBehaviorDefinition ==
  /\ Len(dataframes.definitions.rows) < MaxDefinitions
  /\ \E subject_id \in SubjectIdInputs, behavior_name \in NameInputs,
        description \in DescriptionInputs :
       add_behavior_definition(subject_id, behavior_name, description)

LogScore ==
  /\ Len(dataframes.daily_scores.rows) < MaxScores
  /\ \E definition_id \in DefinitionIdInputs, date \in DateInputs,
        score \in ScoreInputs, notes \in NotesInputs :
       log_score(definition_id, date, score, notes)

CalculateAllAverages == calculate_all_averages

Next ==
  \/ AddSubject
  \/ AddBehaviorDefinition
  \/ LogScore
  \/ CalculateAllAverages

Spec == Init /\ [][Next]_vars

(***************************************************************************)
(* The aggregation engine on its own: the tracker already holds one        *)
(* subject with two behavior definitions, and scores are logged on dates   *)
(* around the turn of the year.                                            *)
(***************************************************************************)
InitAgg ==
  LET subjects ==
        [cols |-> DATABASE_SCHEMA.subjects,
         rows |-> <<[SubjectID |-> 1, SubjectLabel |-> <<"R", "e", "x">>,
                     DateCreated |-> "2025-03-01 09:00:00"]>>]
      definitions ==
        [cols |-> DATABASE_SCHEMA.definitions,
         rows |-> <<[DefinitionID |-> 1, SubjectID |-> 1,
                     BehaviorName |-> <<"b">>, Description |-> <<"d">>],
                    [DefinitionID |-> 2, SubjectID |-> 1,
                     BehaviorName |-> <<"b">>, Description |-> <<"d">>]>>]
      loaded ==
        [t \in TableNames |->
           IF t = "subjects" THEN subjects
           ELSE IF t = "definitions" THEN definitions
           ELSE EmptyFrame(t)]
  IN /\ files = loaded
     /\ dataframes = loaded
     /\ last = [op |-> "add_behavior_definition", raised |-> FALSE, again |-> FALSE]

LogDatedScore ==
  /\ Len(dataframes.daily_scores.rows) < MaxAggScores
  /\ \E in \in AggLogInputs : log_score(in.definition_id, in.date, in.score, <<>>)

NextAgg ==
  \/ LogDatedScore
  \/ CalculateAllAverages

SpecAgg == InitAgg /\ [][NextAgg]_vars

TypeOK ==
  /\ DOMAIN dataframes = TableNames
  /\ DOMAIN files = TableNames
  /\ last.raised \in BOOLEAN
  /\ last.again \in BOOLEAN

(***************************************************************************)
(* Properties.                                                             *)
(***************************************************************************)
Rows(t) == dataframes[t].rows

\* the latest call was calculate_all_averages and it found scores to aggregate
AfterAggregation ==
  last.op = "calculate_all_averages" /\ Rows("daily_scores") # <<>>

\* the records of an averages table filed under a definition, a year and a bucket
RecordsFor(t, bucket, def, year, b) ==
  {i \in 1..Len(Rows(t)) :
     /\ Rows(t)[i].DefinitionID = def
     /\ Rows(t)[i].Year = year
     /\ Rows(t)[i][bucket] = b}

\* the daily scores of a definition dated in a calendar year and a set of months
ScoresIn(def, year, months) ==
  {i \in 1..Len(Rows("daily_scores")) :
     /\ Rows("daily_scores")[i].DefinitionID = def
     /\ Rows("daily_scores")[i].Date.y = year
     /\ Rows("daily_scores")[i].Date.m \in months}

\* C1: after calculate_all_averages has run on a non-empty daily-scores table, the
\* monthly averages table holds exactly one record per (DefinitionID, calendar year,
\* calendar month) occurring among the daily scores and no other record; the record's
\* DataPointsCount is the number of scores of the group and its AverageScore their mean.
C1_MonthlyByCalendarMonth ==
  AfterAggregation =>
    /\ \A i \in 1..Len(Rows("daily_scores")) :
         LET r == Rows("daily_scores")[i]
             group == ScoresIn(r.DefinitionID, r.Date.y, {r.Date.m})
             recs == RecordsFor("monthly_averages", "Month", r.DefinitionID, r.Date.y, r.Date.m)
         IN /\ Cardinality(recs) = 1
            /\ \A n \in recs :
                 /\ Rows("monthly_averages")[n].DataPointsCount = Cardinality(group)
                 /\ Rows("monthly_averages")[n].AverageScore.num * Cardinality(group)
                      = SumScores(Rows("daily_scores"), group)
                          * Rows("monthly_averages")[n].AverageScore.den
    /\ \A n \in 1..Len(Rows("monthly_averages")) :
         LET a == Rows("monthly_averages")[n]
         IN ScoresIn(a.DefinitionID, a.Year, {a.Month}) # {}

SpecHalf(month) == IF month \in 1..6 THEN 1 ELSE 2

MonthsOfHalf(half) == IF half = 1 THEN 1..6 ELSE 7..12

\* C9: after calculate_all_averages has run on a non-empty daily-scores table, every
\* daily score dated in calendar year Y and month m is counted in exactly one
\* semi-annual record: the one of its DefinitionID with Year = Y and Half = 1 for m in
\* 1..6, Half = 2 for m in 7..12.
C9_SemiAnnualByCalendarHalf ==
  AfterAggregation =>
    /\ \A i \in 1..Len(Rows("daily_scores")) :
         LET r == Rows("daily_scores")[i]
             half == SpecHalf(r.Date.m)
             recs == RecordsFor("semi_annual_averages", "Half", r.DefinitionID, r.Date.y, half)
         IN /\ Cardinality(recs) = 1
            /\ \A n \in recs :
                 Rows("semi_annual_averages")[n].DataPointsCount
                   = Cardinality(ScoresIn(r.DefinitionID, r.Date.y, MonthsOfHalf(half)))
    /\ Len(Rows("daily_scores")) =
         LET Counts[n \in 0..Len(Rows("semi_annual_averages"))] ==
               IF n = 0 THEN 0
               ELSE Counts[n - 1] + Rows("semi_annual_averages")[n].DataPointsCount
         IN Counts[Len(Rows("semi_annual_averages"))]

\* the arguments on which the claim says logScore does nothing
LogScoreMustReject(definition_id, score) ==
  \/ definition_id.kind \notin {"int", "numstr"}
  \/ score.kind \notin {"int", "numstr"}
  \/ score.val \notin 1..10
  \/ \A i \in 1..Len(Rows("definitions")) :
       Rows("definitions")[i].DefinitionID # definition_id.val

\* C2: logScore leaves all six tables unchanged when definitionId or score fails
\* integer parsing, the score is outside 1..10 or definitionId matches no definition;
\* with an existing definitionId and a score in 1..10 it appends exactly one row to
\* daily_scores.
C2_LogScoreContract ==
  [][\A definition_id \in DefinitionIdInputs, date \in DateInputs,
        score \in ScoreInputs, notes \in NotesInputs :
       log_score(definition_id, date, score, notes) =>
         IF LogScoreMustReject(definition_id, score)
         THEN UNCHANGED <<dataframes, files>>
         ELSE /\ Len(dataframes'.daily_scores.rows) = Len(dataframes.daily_scores.rows) + 1
              /\ \A t \in TableNames \ {"daily_scores"} :
                   dataframes'[t] = dataframes[t] /\ files'[t] = files[t]]_vars

\* case-insensitive comparison of two texts, by folding to upper case
UpperChar(c) ==
  CASE c = "r" -> "R"
    [] c = "e" -> "E"
    [] c = "x" -> "X"
    [] c = "b" -> "B"
    [] c = "o" -> "O"
    [] OTHER -> c

SameIgnoringCase(a, b) ==
  Len(a) = Len(b) /\ \A i \in 1..Len(a) : UpperChar(a[i]) = UpperChar(b[i])

Trimmed(s) == s # <<>> /\ s[1] # " " /\ s[Len(s)] # " "

SubjectLabelsUnique ==
  \A i, j \in 1..Len(Rows("subjects")) :
     /\ Trimmed(Rows("subjects")[i].SubjectLabel)
     /\ (i # j =>
           ~SameIgnoringCase(Rows("subjects")[i].SubjectLabel,
                             Rows("subjects")[j].SubjectLabel))

\* the label without its leading and trailing blanks is empty or is, ignoring case,
\* the label of a stored subject
LabelMustBeRefused(subject_label) ==
  \/ \A i \in 1..Len(subject_label) : subject_label[i] = " "
  \/ \E k \in 1..Len(Rows("subjects")), lo, hi \in 1..Len(subject_label) :
       /\ \A i \in 1..Len(subject_label) : (i < lo \/ i > hi) => subject_label[i] = " "
       /\ SameIgnoringCase(SubSeq(subject_label, lo, hi), Rows("subjects")[k].SubjectLabel)

\* C3: no two subjects have labels equal under case-insensitive comparison and every
\* stored label is non-empty without leading or trailing whitespace; an addSubject
\* whose trimmed label is empty or matches an existing label ignoring case leaves the
\* subjects table unchanged.
C3_SubjectLabels ==
  /\ []SubjectLabelsUnique
  /\ [][\A subject_label \in LabelInputs \ {None}, now \in Timestamps :
          (add_subject(subject_label, now) /\ LabelMustBeRefused(subject_label))
            => (dataframes'.subjects = dataframes.subjects
                  /\ files'.subjects = files.subjects)]_vars

\* two subjects were stored, the second was given a definition, and a later addSubject
\* returned without adding a subject
C3_Witness ==
  /\ last.op = "add_subject" /\ ~last.raised
  /\ Len(Rows("subjects")) = 2
  /\ \E i \in 1..2 : Rows("subjects")[i].SubjectLabel \in {<<"R", "e", "x">>, <<"r", "e", "x">>}
  /\ Len(Rows("definitions")) >= 1

\* C4: after any sequence of operations each persisted table has exactly the columns
\* of its schema.
C4_PersistedColumns ==
  \A t \in TableNames : files[t].cols = DATABASE_SCHEMA[t]

\* C5: no call of addSubject, addBehaviorDefinition or logScore raises an error for
\* malformed input; each call performs its mutation or returns as a silent no-op.
C5_NoOperationRaises ==
  last.op \in {"add_subject", "add_behavior_definition", "log_score"}
    => ~last.raised

AveragesOf(frames) == [t \in AverageTables |-> frames[t]]

\* C6: calling calculateAllAverages twice in a row yields, after the second call,
\* weekly, monthly and semi-annual tables identical to those after the first call.
C6_AggregationIdempotent ==
  [][(last.op = "calculate_all_averages" /\ last'.op = "calculate_all_averages")
       => (AveragesOf(dataframes') = AveragesOf(dataframes)
             /\ AveragesOf(files') = AveragesOf(files))]_vars

\* calculate_all_averages has run twice in a row over scores that fall in two groups
C6_Witness ==
  /\ last.op = "calculate_all_averages" /\ last.again
  /\ Len(Rows("weekly_averages")) >= 2
  /\ \E n \in 1..Len(Rows("monthly_averages")) : Rows("monthly_averages")[n].DataPointsCount >= 2

IdColumn == [subjects |-> "SubjectID", definitions |-> "DefinitionID", daily_scores |-> "LogID"]

IdsIncreasing ==
  \A t \in DOMAIN IdColumn :
     \A i, j \in 1..Len(Rows(t)) : i < j => Rows(t)[i][IdColumn[t]] < Rows(t)[j][IdColumn[t]]

\* the row a step appends to table t carries the ID max(existing)+1, or 1
AppendsNextId(t) ==
  Len(dataframes'[t].rows) # Len(dataframes[t].rows) =>
    LET new == dataframes'[t].rows[Len(dataframes'[t].rows)][IdColumn[t]]
    IN /\ Len(dataframes'[t].rows) = Len(dataframes[t].rows) + 1
       /\ \A i \in 1..Len(Rows(t)) : Rows(t)[i][IdColumn[t]] < new
       /\ IF Rows(t) = <<>> THEN new = 1
          ELSE \E i \in 1..Len(Rows(t)) : Rows(t)[i][IdColumn[t]] = new - 1

\* C7: every successful addSubject, addBehaviorDefinition or logScore gives the new
\* record the ID max(existing IDs)+1 (1 in an empty table), so the IDs of each table
\* are pairwise distinct and increase in insertion order; a logScore for a
\* (definition, date) that already has a score succeeds and gets a distinct LogID.
C7_SurrogateIds ==
  /\ []IdsIncreasing
  /\ [][\A t \in DOMAIN IdColumn : AppendsNextId(t)]_vars
  /\ [][\A definition_id \in DefinitionIdInputs, date \in DateInputs \ BadDateInputs,
           score \in ScoreInputs, notes \in NotesInputs \ {None} :
          (/\ log_score(definition_id, date, score, notes)
           /\ ~LogScoreMustReject(definition_id, score)
           /\ \E i \in 1..Len(Rows("daily_scores")) :
                /\ Rows("daily_scores")[i].DefinitionID = definition_id.val
                /\ Rows("daily_scores")[i].Date.y = date.y
                /\ Rows("daily_scores")[i].Date.m = date.m
                /\ Rows("daily_scores")[i].Date.d = date.d)
            => Len(dataframes'.daily_scores.rows) = Len(dataframes.daily_scores.rows) + 1]_vars

\* two scores of one definition on one date are stored under different LogIDs
C7_Witness ==
  /\ last.op = "log_score" /\ ~last.raised
  /\ \E i, j \in 1..Len(Rows("daily_scores")) :
       /\ i < j
       /\ Rows("daily_scores")[i].DefinitionID = Rows("daily_scores")[j].DefinitionID
       /\ Rows("daily_scores")[i].Date.y = Rows("daily_scores")[j].Date.y
       /\ Rows("daily_scores")[i].Date.m = Rows("daily_scores")[j].Date.m
       /\ Rows("daily_scores")[i].Date.d = Rows("daily_scores")[j].Date.d
       /\ Rows("daily_scores")[i].LogID # Rows("daily_scores")[j].LogID
  /\ Len(Rows("definitions")) = 2

ReferencesResolve ==
  /\ \A i \in 1..Len(Rows("definitions")) :
       \E k \in 1..Len(Rows("subjects")) :
          Rows("subjects")[k].SubjectID = Rows("definitions")[i].SubjectID
  /\ \A i \in 1..Len(Rows("daily_scores")) :
       \E k \in 1..Len(Rows("definitions")) :
          Rows("definitions")[k].DefinitionID = Rows("daily_scores")[i].DefinitionID

\* the subject ID parses to no stored SubjectID, or the name is missing or blank
DefinitionMustBeRefused(subject_id, behavior_name) ==
  \/ behavior_name = None
  \/ \A i \in 1..Len(behavior_name) : behavior_name[i] = " "
  \/ (subject_id.kind \in {"int", "numstr"}
        /\ \A k \in 1..Len(Rows("subjects")) : Rows("subjects")[k].SubjectID # subject_id.val)

\* C8: every definition's SubjectID is the SubjectID of a subject and every daily
\* score's DefinitionID is the DefinitionID of a definition; addBehaviorDefinition with
\* a subjectId matching no subject, or with an empty name, leaves definitions unchanged.
C8_ReferentialIntegrity ==
  /\ []ReferencesResolve
  /\ [][\A subject_id \in SubjectIdInputs, behavior_name \in NameInputs,
           description \in DescriptionInputs :
          (/\ add_behavior_definition(subject_id, behavior_name, description)
           /\ DefinitionMustBeRefused(subject_id, behavior_name))
            => (dataframes'.definitions = dataframes.definitions
                  /\ files'.definitions = files.definitions)]_vars

\* a definition and a score of it are stored, and a later addBehaviorDefinition
\* returned without adding a definition
C8_Witness ==
  /\ last.op = "add_behavior_definition" /\ ~last.raised
  /\ Len(Rows("definitions")) = 1
  /\ Len(Rows("daily_scores")) >= 1

\* C10: calculateAllAverages changes only the three averages tables: subjects,
\* definitions and daily_scores, in memory and persisted, are after the call what they
\* were before it; with daily_scores empty the call changes nothing.
C10_AggregationFrame ==
  [][last'.op = "calculate_all_averages" =>
       /\ \A t \in TableNames \ AverageTables :
            dataframes'[t] = dataframes[t] /\ files'[t] = files[t]
       /\ (dataframes.daily_scores.rows = <<>> => UNCHANGED <<dataframes, files>>)]_vars

====
